---- MODULE Spec2Model ----
(***************************************************************************)
(* Model of yt_dlp/update.py: detect_variant, is_non_updateable and the    *)
(* step-by-step control flow of run_update over an abstract filesystem     *)
(* (the live executable and its `.new` / `.old` siblings), the network     *)
(* opener and the reporting sink.                                          *)
(***************************************************************************)
EXTENDS Integers, Sequences, FiniteSets, TLC

VARIABLES
    pc,            \* position inside run_update
    env,           \* ambient process state read by detect_variant
    cache,         \* functools.cache of detect_variant ("none" when empty)
    cur,           \* __version__ of the running program
    version_info,  \* parsed release manifest (NoInfo before the fetch)
    fs,            \* content at the live path and at its .new / .old siblings
    live0,         \* content of the live path when the run started
    variant,       \* local `variant` of run_update
    arch,          \* local `arch` / `pack_type`
    newcontent,    \* local `newcontent`
    expected_sum,  \* local `expected_sum`
    fileW,         \* os.access(filename, W_OK): "unknown", "writable" or "denied"
    dirW,          \* os.access(directory, W_OK): "unknown", "writable" or "denied"
    ret,           \* how the run ended: "running", "None", "True" or the exception raised
    log,           \* messages handed to the reporting sink, in order
    net,           \* network transfers started, in order
    fsops,         \* filesystem operations performed, in order
    mismatch,      \* the downloaded digest was found to differ from the expected one
    cleanup,       \* deferred deletion of `.old`: "none", "scheduled", "ran"
    run,           \* number of the current process run
    args,          \* arguments of a function applied on its own
    result         \* what that function returned

vars == <<pc, env, cache, cur, version_info, fs, live0, variant, arch, newcontent,
          expected_sum, fileW, dirW, ret, log, net, fsops, mismatch, cleanup, run,
          args, result>>

(***************************************************************************)
(* Bounds                                                                  *)
(***************************************************************************)
MaxRuns == 2
MaxAssets == 2
MaxSegments == 2

(***************************************************************************)
(* Strings that the code takes apart are sequences of characters.          *)
(***************************************************************************)
Str_ytdlp == <<"y", "t", "-", "d", "l", "p">>
Str_exe == <<".", "e", "x", "e">>
Str_min_exe == <<"_", "m", "i", "n">> \o Str_exe
Str_x86_exe == <<"_", "x", "8", "6">> \o Str_exe
Str_macos == <<"_", "m", "a", "c", "o", "s">>
Str_SUMS == <<"S", "H", "A", "2", "-", "2", "5", "6", "S", "U", "M", "S">>
Str_SHA2 == <<"S", "H", "A", "2">>

\* `a in b` for two Python strings: a is a contiguous part of b
StrIn(a, b) ==
    \E i \in 0..(Len(b) - Len(a)) : SubSeq(b, i + 1, i + Len(a)) = a

(***************************************************************************)
(* detect_variant and is_non_updateable                                    *)
(***************************************************************************)
ExeDir == "/opt/app"

Envs ==
    [frozen : BOOLEAN, platform : {"darwin", "win32", "linux"},
     meipass : {"none", ExeDir, "/tmp/_MEI1"},
     ziploader : BOOLEAN, argv0 : {"__main__.py", "yt-dlp"}]

\* the ambient states run_update is started in: sys._MEIPASS is set only by the
\* loader of a frozen program, and a frozen program is not imported from a zip
RunEnvs ==
    {e \in Envs : IF e.frozen THEN ~e.ziploader /\ e.argv0 = "yt-dlp"
                              ELSE e.meipass = "none"}

\* line 20 with `!=` in place of `==`
detect_variant_body_Swapped(e) ==
    IF e.frozen
    THEN LET prefix == IF e.platform = "darwin" THEN "mac" ELSE "win"
         IN IF e.meipass # "none"
            THEN IF e.meipass # ExeDir THEN prefix \o "_dir" ELSE prefix \o "_exe"
            ELSE "py2exe"
    ELSE IF e.ziploader THEN "zip"
    ELSE IF e.argv0 = "__main__.py" THEN "source"
    ELSE "unknown"

\* lines 16-28
detect_variant_body(e) ==
    IF e.frozen
    THEN LET prefix == IF e.platform = "darwin" THEN "mac" ELSE "win"
         IN IF e.meipass # "none"
            THEN IF e.meipass = ExeDir THEN prefix \o "_dir" ELSE prefix \o "_exe"
            ELSE "py2exe"
    ELSE IF e.ziploader THEN "zip"
    ELSE IF e.argv0 = "__main__.py" THEN "source"
    ELSE "unknown"

\* detect_variant without @functools.cache
detect_variant_Uncached(c, e) == detect_variant_body(e)

\* @functools.cache: the body runs only when nothing is cached
detect_variant(c, e) == IF c # "none" THEN c ELSE detect_variant_body(e)

_NON_UPDATEABLE_REASONS ==
    [win_exe |-> "None", zip |-> "None", mac_exe |-> "None", py2exe |-> "None",
     win_dir |-> "Auto-update is not supported for unpackaged windows executable; Re-download the latest release",
     mac_dir |-> "Auto-update is not supported for unpackaged MacOS executable; Re-download the latest release",
     source |-> "You cannot update when running from source code; Use git to pull the latest changes",
     unknown |-> "It looks like you installed yt-dlp with a package manager, pip or setup.py; Use that to update"]

\* every variant taken for updatable
is_non_updateable_Never(c, e) == "None"

\* lines 43-44: the reason of the detected variant, 'unknown' being the default
is_non_updateable(c, e) ==
    LET v == detect_variant(c, e)
    IN IF v \in DOMAIN _NON_UPDATEABLE_REASONS
       THEN _NON_UPDATEABLE_REASONS[v]
       ELSE _NON_UPDATEABLE_REASONS["unknown"]

(***************************************************************************)
(* version_tuple: split on "." and convert every segment with int()        *)
(***************************************************************************)
DigitVal(ch) ==
    CASE ch = "0" -> 0 [] ch = "1" -> 1 [] ch = "2" -> 2 [] ch = "3" -> 3
      [] ch = "4" -> 4 [] ch = "5" -> 5 [] ch = "6" -> 6 [] ch = "7" -> 7
      [] ch = "8" -> 8 [] ch = "9" -> 9

RECURSIVE SplitDot(_, _)
\* str.split('.'): acc is the segment being read
SplitDot(s, acc) ==
    IF s = <<>> THEN <<acc>>
    ELSE IF Head(s) = "." THEN <<acc>> \o SplitDot(Tail(s), <<>>)
    ELSE SplitDot(Tail(s), Append(acc, Head(s)))

RECURSIVE ParseInt(_, _)
\* int() of a non-empty string of decimal digits
ParseInt(s, n) ==
    IF s = <<>> THEN n ELSE ParseInt(Tail(s), 10 * n + DigitVal(Head(s)))

version_tuple(version_str) ==
    LET segs == SplitDot(version_str, <<>>)
    IN [i \in 1..Len(segs) |-> ParseInt(segs[i], 0)]

RECURSIVE TupleLess(_, _)
\* Python's a < b on tuples of integers
TupleLess(a, b) ==
    IF b = <<>> THEN FALSE
    ELSE IF a = <<>> THEN TRUE
    ELSE IF Head(a) # Head(b) THEN Head(a) < Head(b)
    ELSE TupleLess(Tail(a), Tail(b))

\* Python's a >= b on tuples of integers
TupleGE(a, b) == ~TupleLess(a, b)

\* line 88 with `>` in place of `>=`
IsUpToDate_Strict(current, latest) == TupleLess(version_tuple(latest), version_tuple(current))

\* line 88: version_tuple(__version__) >= version_tuple(version_id)
IsUpToDate(current, latest) == TupleGE(version_tuple(current), version_tuple(latest))

\* version strings of the running program and of release tags
Versions == { <<"2">>, <<"1", "0">>, <<"1", "0", ".", "1">> }

(***************************************************************************)
(* File contents and SHA-256                                               *)
(***************************************************************************)
\* "absent": no file; "orig": the installed program; "stale": left by an
\* earlier update; "partial": a truncated write; "rel", "bad": downloads
Downloads == {"rel", "bad"}

\* hashlib.sha256(...).hexdigest(): distinct contents have distinct digests
Sha256 ==
    [orig |-> "5d41", stale |-> "9f86", partial |-> "e3b0", rel |-> "2c26", bad |-> "fcde"]

\* calc_sha256sum(path): the digest of what the path holds
calc_sha256sum(f, path) == Sha256[f[path]]

Paths == {"live", "new", "old"}

\* the download written over the running file
FilenameNew_Live == "live"

\* filename + '.new'
FilenameNew == "new"

\* filename + '.old'
FilenameOld == "old"

\* os.rename(src, dst): fails when src is missing, and on Windows when dst exists
RenameOutcomes(f, src, dst, platform) ==
    {[ok |-> FALSE, fs |-> f]} \cup
    IF f[src] = "absent" \/ (f[dst] # "absent" /\ platform = "win32")
    THEN {}
    ELSE {[ok |-> TRUE, fs |-> [f EXCEPT ![dst] = f[src], ![src] = "absent"]]}

\* os.remove(path)
RemoveOutcomes(f, path) ==
    {[ok |-> FALSE, fs |-> f]} \cup
    IF f[path] = "absent" THEN {} ELSE {[ok |-> TRUE, fs |-> [f EXCEPT ![path] = "absent"]]}

\* with open(path, 'wb') as outf: outf.write(data)
\* open() may fail (nothing changes); once it succeeded the file is truncated
\* and a failing write leaves a partial file
WriteOutcomes(f, path, data) ==
    {[ok |-> FALSE, fs |-> f],
     [ok |-> FALSE, fs |-> [f EXCEPT ![path] = "partial"]],
     [ok |-> TRUE, fs |-> [f EXCEPT ![path] = data]]}

\* open(path, 'rb') and reading it to the end
ReadOutcomes(f, path) == IF f[path] = "absent" THEN {FALSE} ELSE {FALSE, TRUE}

FsOp(op, path, dst, ok) == [op |-> op, path |-> path, dst |-> dst, ok |-> ok]

(***************************************************************************)
(* Release manifest, asset lookup and checksum manifest                    *)
(***************************************************************************)
version_labels ==
    (<<"zip", "3">> :> <<>>) @@ (<<"win_exe", "64">> :> Str_exe) @@
    (<<"py2exe", "64">> :> Str_min_exe) @@ (<<"win_exe", "32">> :> Str_x86_exe) @@
    (<<"mac_exe", "64">> :> Str_macos)

Asset(name, url) == [name |-> name, browser_download_url |-> url]

\* next((i for i in assets if Matches(i)), {}).get('browser_download_url')
\* "None" stands for a missing asset or a missing key
RECURSIVE FirstUrl(_, _)
FirstUrl(assets, wanted) ==
    IF assets = <<>> THEN "None"
    ELSE IF Head(assets).name = wanted THEN Head(assets).browser_download_url
    ELSE FirstUrl(Tail(assets), wanted)

\* get_bin_info(bin_or_exe, version).get('browser_download_url'); the lookup
\* in version_labels raises KeyError for a pair the table lacks
get_bin_info_url(assets, bin_or_exe, version) ==
    IF <<bin_or_exe, version>> \notin DOMAIN version_labels THEN "KeyError"
    ELSE FirstUrl(assets, Str_ytdlp \o version_labels[<<bin_or_exe, version>>])

RECURSIVE FirstUrlIn(_, _)
\* next((i for i in assets if i['name'] in ('SHA2-256SUMS')), {}).get(...)
\* ('SHA2-256SUMS') is a string, so `in` tests for a part of it
FirstUrlIn(assets, whole) ==
    IF assets = <<>> THEN "None"
    ELSE IF StrIn(Head(assets).name, whole) THEN Head(assets).browser_download_url
    ELSE FirstUrlIn(Tail(assets), whole)

\* the url get_sha256sum downloads the checksum manifest from
sha256sum_url(assets) == FirstUrlIn(assets, Str_SUMS)

RECURSIVE DictGet(_, _, _)
\* dict(ln.split()[::-1] for ln in lines).get(filename): a later line wins
DictGet(lines, filename, found) ==
    IF lines = <<>> THEN found
    ELSE DictGet(Tail(lines), filename,
                 IF Head(lines)[2] = filename THEN Head(lines)[1] ELSE found)

\* the value get_sha256sum returns once hash_data was read; a line that does
\* not split into two tokens makes dict() raise ValueError
parse_hash_data(lines, filename) ==
    IF \E i \in 1..Len(lines) : Len(lines[i]) # 2 THEN "ValueError"
    ELSE DictGet(lines, filename, "None")

\* asset lists of the releases the model fetches
UrlBin == "https://github.com/yt-dlp/yt-dlp/releases/download/bin"
UrlSums == "https://github.com/yt-dlp/yt-dlp/releases/download/SHA2-256SUMS"
UrlOther == "https://github.com/yt-dlp/yt-dlp/releases/download/other"

\* every binary of a release, each with the given download url
RECURSIVE BinAssets(_, _)
BinAssets(keys, url) ==
    IF keys = {} THEN <<>>
    ELSE LET k == CHOOSE x \in keys : TRUE
         IN <<Asset(Str_ytdlp \o version_labels[k], url)>> \o BinAssets(keys \ {k}, url)

Bins == BinAssets(DOMAIN version_labels, UrlBin)

AssetLists ==
    { <<>>,
      Bins,
      Bins \o <<Asset(Str_SUMS, UrlSums)>>,
      <<Asset(Str_SHA2, UrlOther)>> \o Bins \o <<Asset(Str_SUMS, UrlSums)>>,
      <<Asset(Str_SUMS, "None")>> \o Bins,
      <<Asset(Str_SHA2, UrlOther)>> \o Bins,
      BinAssets(DOMAIN version_labels, "None") \o <<Asset(Str_SUMS, UrlSums)>> }

\* checksum manifests served for an asset named filename
HashDatas(filename) ==
    { <<>>,
      << <<Sha256["rel"], filename>> >>,
      << <<Sha256["rel"], Str_SHA2>> >>,
      << <<Sha256["rel"], filename>>, <<Sha256["orig"], filename>> >>,
      << <<Sha256["rel"]>> >> }

(***************************************************************************)
(* Reporting sink                                                          *)
(***************************************************************************)
Msg(sev, msg, expected) == [sev |-> sev, msg |-> msg, expected |-> expected]

\* report_error(msg, expected)
report_error(msg, expected) == Msg("error", msg, expected)

\* report_unable(action, expected)
report_unable(action, expected) == report_error("Unable to " \o action, expected)

\* report_permission_error(file)
report_permission_error(file) ==
    report_unable("write to " \o file \o "; Try running as administrator", TRUE)

\* report_network_error(action, delim)
report_network_error(action, delim) ==
    report_unable(action \o delim \o " Visit  https://github.com/yt-dlp/yt-dlp/releases/latest", TRUE)

to_screen(msg) == Msg("info", msg, TRUE)

report_warning(msg) == Msg("warning", msg, TRUE)

(***************************************************************************)
(* run_update                                                              *)
(***************************************************************************)
\* version_info before line 78 has run
NoInfo == [tag_name |-> <<>>, assets |-> <<>>]

Init ==
    /\ pc = "fetch_info"
    /\ env \in RunEnvs
    /\ cache = "none"
    /\ cur \in Versions
    /\ version_info = NoInfo
    /\ fs \in {[live |-> "orig", new |-> "absent", old |-> o] : o \in {"absent", "stale"}}
    /\ live0 = "orig"
    /\ variant = "none"
    /\ arch = "none"
    /\ newcontent = "none"
    /\ expected_sum = "none"
    /\ fileW = "unknown"
    /\ dirW = "unknown"
    /\ ret = "running"
    /\ log = <<>>
    /\ net = <<>>
    /\ fsops = <<>>
    /\ mismatch = FALSE
    /\ cleanup = "none"
    /\ run = 1
    /\ args = <<>>
    /\ result = <<>>

\* `return` / `return report_...(...)`: the routine ends returning None
ReturnNone == pc' = "done" /\ ret' = "None"

\* an exception leaves run_update
Raise(exc) == pc' = "done" /\ ret' = exc

\* lines 76-81: download the versions info
FetchVersionInfo ==
    /\ pc = "fetch_info"
    /\ net' = Append(net, "manifest")
    /\ \/ /\ log' = Append(log, report_network_error("obtain version info", "; Please try again later or"))
          /\ ReturnNone
          /\ UNCHANGED version_info
       \/ /\ \E t \in Versions, a \in AssetLists :
                 version_info' = [tag_name |-> t, assets |-> a]
          /\ pc' = "check_version"
          /\ UNCHANGED <<ret, log>>
    /\ UNCHANGED <<args, result>>
    /\ UNCHANGED <<env, cache, cur, fs, live0, variant, arch, newcontent, expected_sum,
                   fileW, dirW, fsops, mismatch, cleanup, run>>

\* lines 86-90: compare the versions
CheckVersion ==
    /\ pc = "check_version"
    /\ IF IsUpToDate(cur, version_info.tag_name)
       THEN /\ log' = log \o << to_screen("Latest version, Current version"),
                                to_screen("yt-dlp is up to date") >>
            /\ ReturnNone
       ELSE /\ log' = Append(log, to_screen("Latest version, Current version"))
            /\ pc' = "check_updatable"
            /\ UNCHANGED ret
    /\ UNCHANGED <<args, result>>
    /\ UNCHANGED <<env, cache, cur, version_info, fs, live0, variant, arch, newcontent,
                   expected_sum, fileW, dirW, net, fsops, mismatch, cleanup, run>>

\* lines 92-94: refuse the variants that cannot be updated
CheckUpdatable ==
    /\ pc = "check_updatable"
    /\ cache' = detect_variant(cache, env)
    /\ LET err == is_non_updateable(cache, env)
       IN IF err # "None"
          THEN /\ log' = Append(log, report_error(err, TRUE))
               /\ ReturnNone
          ELSE /\ pc' = "build_hash"
               /\ UNCHANGED <<ret, log>>
    /\ UNCHANGED <<args, result>>
    /\ UNCHANGED <<env, cur, version_info, fs, live0, variant, arch, newcontent,
                   expected_sum, fileW, dirW, net, fsops, mismatch, cleanup, run>>

\* lines 99-101: hash of the running file; the read is not guarded
CurrentBuildHash ==
    /\ pc = "build_hash"
    /\ \E ok \in ReadOutcomes(fs, "live") :
          IF ok
          THEN /\ log' = log \o << to_screen("Current Build Hash " \o calc_sha256sum(fs, "live")),
                                   to_screen("Updating to version") >>
               /\ pc' = "check_file_perm"
               /\ UNCHANGED ret
          ELSE /\ Raise("OSError")
               /\ UNCHANGED log
    /\ UNCHANGED <<args, result>>
    /\ UNCHANGED <<env, cache, cur, version_info, fs, live0, variant, arch, newcontent,
                   expected_sum, fileW, dirW, net, fsops, mismatch, cleanup, run>>

\* the outcome of os.access ignored
PermissionDenied_Ignored(writable) == FALSE

\* lines 125 and 132: `if not os.access(..., os.W_OK)`
PermissionDenied(writable) == ~writable

\* lines 125-126: os.access(filename, os.W_OK)
CheckFilePermission ==
    /\ pc = "check_file_perm"
    /\ \E w \in BOOLEAN :
          /\ fileW' = IF w THEN "writable" ELSE "denied"
          /\ IF ~PermissionDenied(w)
             THEN pc' = "dispatch" /\ UNCHANGED <<ret, log>>
             ELSE /\ log' = Append(log, report_permission_error("filename"))
                  /\ ReturnNone
    /\ UNCHANGED <<args, result>>
    /\ UNCHANGED <<env, cache, cur, version_info, fs, live0, variant, arch, newcontent,
                   expected_sum, dirW, net, fsops, mismatch, cleanup, run>>

\* lines 129-130, 187, 214: choose the install procedure of the variant
Dispatch ==
    /\ pc = "dispatch"
    /\ LET v == detect_variant(cache, env)
       IN /\ variant' = v
          /\ cache' = v
          /\ pc' = IF v \in {"win_exe", "py2exe"} THEN "check_dir_perm"
                   ELSE IF v \in {"zip", "mac_exe"} THEN "zip_download"
                   ELSE "assert"
    /\ UNCHANGED <<args, result>>
    /\ UNCHANGED <<env, cur, version_info, fs, live0, arch, newcontent, expected_sum,
                   fileW, dirW, ret, log, net, fsops, mismatch, cleanup, run>>

\* lines 131-133: os.access(directory, os.W_OK)
CheckDirPermission ==
    /\ pc = "check_dir_perm"
    /\ \E w \in BOOLEAN :
          /\ dirW' = IF w THEN "writable" ELSE "denied"
          /\ IF ~PermissionDenied(w)
             THEN pc' = "remove_old" /\ UNCHANGED <<ret, log>>
             ELSE /\ log' = Append(log, report_permission_error("directory"))
                  /\ ReturnNone
    /\ UNCHANGED <<args, result>>
    /\ UNCHANGED <<env, cache, cur, version_info, fs, live0, variant, arch, newcontent,
                   expected_sum, fileW, net, fsops, mismatch, cleanup, run>>

\* lines 134-138: remove a left-over `.old`
RemoveOld ==
    /\ pc = "remove_old"
    /\ IF fs[FilenameOld] # "absent"
       THEN \E o \in RemoveOutcomes(fs, FilenameOld) :
               /\ fs' = o.fs
               /\ fsops' = Append(fsops, FsOp("remove", FilenameOld, "", o.ok))
               /\ IF o.ok
                  THEN pc' = "download" /\ UNCHANGED <<ret, log>>
                  ELSE /\ log' = Append(log, report_unable("remove the old version", FALSE))
                       /\ ReturnNone
       ELSE pc' = "download" /\ UNCHANGED <<fs, fsops, ret, log>>
    /\ UNCHANGED <<args, result>>
    /\ UNCHANGED <<env, cache, cur, version_info, live0, variant, arch, newcontent,
                   expected_sum, fileW, dirW, net, mismatch, cleanup, run>>

\* lines 142-149 and 190-197: resolve the asset and download it
Download(version, action, next) ==
    /\ arch' = version
    /\ LET url == get_bin_info_url(version_info.assets, variant, version)
       IN IF url = "KeyError"
          THEN Raise("KeyError") /\ UNCHANGED <<log, net, newcontent>>
          ELSE IF url = "None"
          THEN /\ log' = Append(log, report_network_error("fetch updates", ";"))
               /\ ReturnNone
               /\ UNCHANGED <<net, newcontent>>
          ELSE /\ net' = Append(net, "asset")
               /\ \/ /\ log' = Append(log, report_network_error(action, ";"))
                     /\ ReturnNone
                     /\ UNCHANGED newcontent
                  \/ /\ newcontent' \in Downloads
                     /\ pc' = next
                     /\ UNCHANGED <<ret, log>>
    /\ UNCHANGED <<args, result>>
    /\ UNCHANGED <<env, cache, cur, version_info, fs, live0, variant, expected_sum,
                   fileW, dirW, fsops, mismatch, cleanup, run>>

\* lines 140-149: arch = platform.architecture()[0][:2]
DownloadExe ==
    /\ pc = "download"
    /\ \E a \in {"32", "64"} : Download(a, "download latest version", "write_new")

\* lines 151-155: write the download to `.new`
WriteNew ==
    /\ pc = "write_new"
    /\ \E o \in WriteOutcomes(fs, FilenameNew, newcontent) :
          /\ fs' = o.fs
          /\ fsops' = Append(fsops, FsOp("write", FilenameNew, "", o.ok))
          /\ IF o.ok
             THEN pc' = "get_sum" /\ UNCHANGED <<ret, log>>
             ELSE /\ log' = Append(log, report_permission_error("filename.new"))
                  /\ ReturnNone
    /\ UNCHANGED <<args, result>>
    /\ UNCHANGED <<env, cache, cur, version_info, live0, variant, arch, newcontent,
                   expected_sum, fileW, dirW, net, mismatch, cleanup, run>>

\* lines 115-123, called at lines 157 and 199: nothing guards the fetch
get_sha256sum(next) ==
    /\ LET filename == Str_ytdlp \o version_labels[<<variant, arch>>]
           urlh == sha256sum_url(version_info.assets)
       IN IF urlh = "None"
          THEN /\ expected_sum' = "None"
               /\ pc' = next
               /\ UNCHANGED <<ret, net>>
          ELSE /\ net' = Append(net, "sums")
               /\ \/ Raise("URLError") /\ UNCHANGED expected_sum
                  \/ \E hash_data \in HashDatas(filename) :
                        LET r == parse_hash_data(hash_data, filename)
                        IN IF r = "ValueError"
                           THEN Raise("ValueError") /\ UNCHANGED expected_sum
                           ELSE expected_sum' = r /\ pc' = next /\ UNCHANGED ret
    /\ UNCHANGED <<args, result>>
    /\ UNCHANGED <<env, cache, cur, version_info, fs, live0, variant, arch, newcontent,
                   fileW, dirW, log, fsops, mismatch, cleanup, run>>

\* line 157
GetSumExe == pc = "get_sum" /\ get_sha256sum("verify")

\* lines 158-165: compare the digest of `.new` with the expected one
VerifyExe ==
    /\ pc = "verify"
    /\ IF expected_sum = "None"
       THEN /\ log' = Append(log, report_warning("no hash information found for the release"))
            /\ pc' = "move_current"
            /\ UNCHANGED <<ret, fs, fsops, mismatch>>
       ELSE \E ok \in ReadOutcomes(fs, FilenameNew) :
              IF ~ok
              THEN Raise("OSError") /\ UNCHANGED <<log, fs, fsops, mismatch>>
              ELSE IF calc_sha256sum(fs, FilenameNew) # expected_sum
              THEN /\ mismatch' = TRUE
                   /\ \E o \in RemoveOutcomes(fs, FilenameNew) :
                         /\ fs' = o.fs
                         /\ fsops' = Append(fsops, FsOp("remove", FilenameNew, "", o.ok))
                         /\ IF o.ok
                            THEN /\ log' = Append(log, report_network_error("verify the new executable", ";"))
                                 /\ pc' = "move_current"
                                 /\ UNCHANGED ret
                            ELSE /\ log' = log \o
                                       << report_network_error("verify the new executable", ";"),
                                          report_unable("remove corrupt download", FALSE) >>
                                 /\ ReturnNone
              ELSE /\ pc' = "move_current"
                   /\ UNCHANGED <<ret, log, fs, fsops, mismatch>>
    /\ UNCHANGED <<args, result>>
    /\ UNCHANGED <<env, cache, cur, version_info, live0, variant, arch, newcontent,
                   expected_sum, fileW, dirW, net, cleanup, run>>

\* lines 167-170: os.rename(filename, filename + '.old')
MoveCurrent ==
    /\ pc = "move_current"
    /\ \E o \in RenameOutcomes(fs, "live", FilenameOld, env.platform) :
          /\ fs' = o.fs
          /\ fsops' = Append(fsops, FsOp("rename", "live", FilenameOld, o.ok))
          /\ IF o.ok
             THEN pc' = "move_new" /\ UNCHANGED <<ret, log>>
             ELSE /\ log' = Append(log, report_unable("move current version", FALSE))
                  /\ ReturnNone
    /\ UNCHANGED <<args, result>>
    /\ UNCHANGED <<env, cache, cur, version_info, live0, variant, arch, newcontent,
                   expected_sum, fileW, dirW, net, mismatch, cleanup, run>>

\* the failure of the second rename swallowed
AfterMoveNew_Swallowed(ok) == "schedule_cleanup"

\* lines 171-177: the try block ends and the cleanup follows, or the handler runs
AfterMoveNew(ok) == IF ok THEN "schedule_cleanup" ELSE "rollback"

\* lines 171-174: os.rename(filename + '.new', filename)
MoveNew ==
    /\ pc = "move_new"
    /\ \E o \in RenameOutcomes(fs, FilenameNew, "live", env.platform) :
          /\ fs' = o.fs
          /\ fsops' = Append(fsops, FsOp("rename", FilenameNew, "live", o.ok))
          /\ pc' = AfterMoveNew(o.ok)
          /\ IF o.ok
             THEN UNCHANGED log
             ELSE log' = Append(log, report_unable("overwrite current version", FALSE))
    /\ UNCHANGED <<args, result>>
    /\ UNCHANGED <<env, cache, cur, version_info, live0, variant, arch, newcontent,
                   expected_sum, fileW, dirW, ret, net, mismatch, cleanup, run>>

\* the handler returning without line 175
Rollback_Skipped ==
    /\ pc = "rollback"
    /\ ReturnNone
    /\ UNCHANGED <<env, cache, cur, version_info, fs, live0, variant, arch, newcontent,
                   expected_sum, fileW, dirW, log, net, fsops, mismatch, cleanup, run,
                   args, result>>

\* lines 175-176: os.rename(filename + '.old', filename) inside the handler
Rollback ==
    /\ pc = "rollback"
    /\ \E o \in RenameOutcomes(fs, FilenameOld, "live", env.platform) :
          /\ fs' = o.fs
          /\ fsops' = Append(fsops, FsOp("rename", FilenameOld, "live", o.ok))
          /\ IF o.ok THEN ReturnNone ELSE Raise("OSError")
    /\ UNCHANGED <<args, result>>
    /\ UNCHANGED <<env, cache, cur, version_info, live0, variant, arch, newcontent,
                   expected_sum, fileW, dirW, log, net, mismatch, cleanup, run>>

\* lines 177-185: start the deferred deletion of `.old`
ScheduleCleanup ==
    /\ pc = "schedule_cleanup"
    /\ \/ /\ cleanup' = "scheduled"
          /\ log' = Append(log, to_screen("Updated yt-dlp to version"))
          /\ pc' = "done"
          /\ ret' = "True"
       \/ /\ log' = Append(log, report_unable("delete the old version", FALSE))
          /\ pc' = "assert"
          /\ UNCHANGED <<ret, cleanup>>
    /\ UNCHANGED <<args, result>>
    /\ UNCHANGED <<env, cache, cur, version_info, fs, live0, variant, arch, newcontent,
                   expected_sum, fileW, dirW, net, fsops, mismatch, run>>

\* line 180: `ping 127.0.0.1 -n 5 -w 1000 & del /F "%s.old"` in the background
DeferredDelete ==
    /\ cleanup = "scheduled"
    /\ cleanup' = "ran"
    /\ \/ fs' = [fs EXCEPT ![FilenameOld] = "absent"]
       \/ fs' = fs
    /\ UNCHANGED <<args, result>>
    /\ UNCHANGED <<pc, env, cache, cur, version_info, live0, variant, arch, newcontent,
                   expected_sum, fileW, dirW, ret, log, net, fsops, mismatch, run>>

\* lines 187-197: pack_type = '3' if variant == 'zip' else '64'
ZipDownload ==
    /\ pc = "zip_download"
    /\ Download(IF variant = "zip" THEN "3" ELSE "64", "download the latest version", "zip_get_sum")

\* line 199
GetSumZip == pc = "zip_get_sum" /\ get_sha256sum("zip_verify")

\* line 203 without its `return`
ZipVerify_NoReturn ==
    /\ pc = "zip_verify"
    /\ IF expected_sum = "None"
       THEN /\ log' = Append(log, report_warning("no hash information found for the release"))
            /\ UNCHANGED mismatch
       ELSE IF Sha256[newcontent] # expected_sum
       THEN /\ mismatch' = TRUE
            /\ log' = Append(log, report_network_error("verify the new package", ";"))
       ELSE UNCHANGED <<log, mismatch>>
    /\ pc' = "zip_write"
    /\ UNCHANGED <<env, cache, cur, version_info, fs, live0, variant, arch, newcontent,
                   expected_sum, fileW, dirW, ret, net, fsops, cleanup, run, args, result>>

\* lines 200-203: compare the digest of the bytes in memory
ZipVerify ==
    /\ pc = "zip_verify"
    /\ IF expected_sum = "None"
       THEN /\ log' = Append(log, report_warning("no hash information found for the release"))
            /\ pc' = "zip_write"
            /\ UNCHANGED <<ret, mismatch>>
       ELSE IF Sha256[newcontent] # expected_sum
       THEN /\ mismatch' = TRUE
            /\ log' = Append(log, report_network_error("verify the new package", ";"))
            /\ ReturnNone
       ELSE /\ pc' = "zip_write"
            /\ UNCHANGED <<ret, log, mismatch>>
    /\ UNCHANGED <<args, result>>
    /\ UNCHANGED <<env, cache, cur, version_info, fs, live0, variant, arch, newcontent,
                   expected_sum, fileW, dirW, net, fsops, cleanup, run>>

\* lines 205-212: write the new bytes over the target
ZipOverwrite ==
    /\ pc = "zip_write"
    /\ \E o \in WriteOutcomes(fs, "live", newcontent) :
          /\ fs' = o.fs
          /\ fsops' = Append(fsops, FsOp("write", "live", "", o.ok))
          /\ IF o.ok
             THEN log' = Append(log, to_screen("Updated yt-dlp to version; Restart yt-dlp to use the new version"))
             ELSE log' = Append(log, report_unable("overwrite current version", FALSE))
          /\ ReturnNone
    /\ UNCHANGED <<args, result>>
    /\ UNCHANGED <<env, cache, cur, version_info, live0, variant, arch, newcontent,
                   expected_sum, fileW, dirW, net, mismatch, cleanup, run>>

\* line 214: assert False, f'Unhandled variant: {variant}'
AssertUnhandled ==
    /\ pc = "assert"
    /\ Raise("AssertionError")
    /\ UNCHANGED <<args, result>>
    /\ UNCHANGED <<env, cache, cur, version_info, fs, live0, variant, arch, newcontent,
                   expected_sum, fileW, dirW, log, net, fsops, mismatch, cleanup, run>>

\* the run replaced the live file by the download
Installed ==
    \E i \in DOMAIN fsops :
        /\ fsops[i].ok
        /\ \/ fsops[i].op = "rename" /\ fsops[i].path = FilenameNew /\ fsops[i].dst = "live"
           \/ fsops[i].op = "write" /\ fsops[i].path = "live"

\* the program is started again from the live path: a new process with an
\* empty detect_variant cache, whose __version__ is that of the file it runs
Restart ==
    /\ pc = "done"
    /\ run < MaxRuns
    /\ fs["live"] \in {"orig", "rel", "bad"}
    /\ cleanup # "scheduled"
    /\ pc' = "fetch_info"
    /\ cache' = "none"
    /\ cur' = IF Installed THEN version_info.tag_name ELSE cur
    /\ live0' = fs["live"]
    /\ version_info' = NoInfo
    /\ variant' = "none"
    /\ arch' = "none"
    /\ newcontent' = "none"
    /\ expected_sum' = "none"
    /\ fileW' = "unknown"
    /\ dirW' = "unknown"
    /\ ret' = "running"
    /\ log' = <<>>
    /\ net' = <<>>
    /\ fsops' = <<>>
    /\ mismatch' = FALSE
    /\ cleanup' = "none"
    /\ run' = run + 1
    /\ UNCHANGED <<args, result>>
    /\ UNCHANGED <<env, fs>>

Next ==
    \/ FetchVersionInfo
    \/ CheckVersion
    \/ CheckUpdatable
    \/ CurrentBuildHash
    \/ CheckFilePermission
    \/ Dispatch
    \/ CheckDirPermission
    \/ RemoveOld
    \/ DownloadExe
    \/ WriteNew
    \/ GetSumExe
    \/ VerifyExe
    \/ MoveCurrent
    \/ MoveNew
    \/ Rollback
    \/ ScheduleCleanup
    \/ DeferredDelete
    \/ ZipDownload
    \/ GetSumZip
    \/ ZipVerify
    \/ ZipOverwrite
    \/ AssertUnhandled
    \/ Restart

Spec == Init /\ [][Next]_vars

(***************************************************************************)
(* Vocabulary of the properties                                            *)
(***************************************************************************)
SwapVariants == {"win_exe", "py2exe"}
OverwriteVariants == {"zip", "mac_exe"}
Updatable == SwapVariants \cup OverwriteVariants

\* the operations of the run that rename, remove or write the live path
LiveOps(ops) == SelectSeq(ops, LAMBDA o : o.path = "live" \/ o.dst = "live")

\* the run performed the rename src -> dst with the given outcome
Renamed(src, dst, ok) ==
    \E i \in DOMAIN fsops :
        fsops[i].op = "rename" /\ fsops[i].path = src /\ fsops[i].dst = dst /\ fsops[i].ok = ok

\* m is the last message handed to the reporting sink
LastReported(m) == log # <<>> /\ log[Len(log)] = m

\* m was handed to the reporting sink
Reported(m) == \E i \in DOMAIN log : log[i] = m

Ended == pc = "done"

(***************************************************************************)
(* C1. Whenever run_update ends, by returning or by raising, the live      *)
(* path holds the complete original content or the complete download; in  *)
(* particular after a failed rename of `.new` onto the live path the       *)
(* original is back at the live path.                                      *)
(***************************************************************************)
C1_LiveNeverMissing ==
    Ended =>
        /\ fs["live"] # "absent"
        /\ fs["live"] \in {live0, newcontent}
        /\ (Renamed(FilenameNew, "live", FALSE) => fs["live"] = live0)

(***************************************************************************)
(* C2. Once the digest of the download was found to differ from the        *)
(* expected one, the verification error is reported, the downloaded        *)
(* artifact is deleted and no later step renames, removes or writes the    *)
(* live path.                                                              *)
(***************************************************************************)
C2_MismatchAborts ==
    [][(mismatch /\ run' = run) =>
          /\ LiveOps(fsops') = LiveOps(fsops)
          /\ fs'["live"] = fs["live"]]_vars

(***************************************************************************)
(* C3. No failure of a network fetch and no failure of a remove, write or  *)
(* rename makes an exception leave run_update: the run ends by returning.  *)
(***************************************************************************)
C3_NoExceptionPropagates ==
    Ended =>
        /\ ret # "URLError"
        /\ ~(ret = "OSError" /\ fsops # <<>> /\ ~fsops[Len(fsops)].ok)

(***************************************************************************)
(* C4. run_update returns True only after a complete swap of a win_exe or  *)
(* py2exe install: both renames succeeded, the live path holds the         *)
(* downloaded bytes and, at the return, `.old` holds the previous          *)
(* executable; no other outcome gives True.                                *)
(***************************************************************************)
C4_TrueOnlyAfterSwap ==
    ret = "True" =>
        /\ variant \in SwapVariants
        /\ Renamed("live", FilenameOld, TRUE)
        /\ Renamed(FilenameNew, "live", TRUE)
        /\ ~Renamed(FilenameNew, "live", FALSE)
        /\ newcontent \in Downloads
        /\ fs["live"] = newcontent
        /\ (cleanup = "scheduled" => fs[FilenameOld] = live0)

C4_Witness ==
    /\ Ended
    /\ ret = "True"
    /\ cleanup = "scheduled"
    /\ fs["live"] = newcontent
    /\ fs[FilenameOld] = live0

(***************************************************************************)
(* C5. In the win_exe / py2exe path, once both renames have succeeded the  *)
(* run ends by returning True, whether or not the deferred deletion of     *)
(* `.old` could be started.                                                *)
(***************************************************************************)
C5_SwapReturnsTrue ==
    (Ended /\ Renamed("live", FilenameOld, TRUE) /\ Renamed(FilenameNew, "live", TRUE))
        => ret = "True"

(***************************************************************************)
(* C6. The assertion `Unhandled variant` is reached only with a variant    *)
(* that is none of win_exe, py2exe, zip, mac_exe.                          *)
(***************************************************************************)
C6_AssertOnlyUnhandled ==
    (pc = "assert" \/ ret = "AssertionError") => variant \notin Updatable

(***************************************************************************)
(* C7. Up to and including the moment the outcome of the verification is   *)
(* known no step writes, renames or removes the live path, and a run that  *)
(* ends at a failed manifest fetch, a missing asset or a failed download   *)
(* leaves the content of the live path unchanged.                          *)
(***************************************************************************)
BeforeInstall ==
    {"fetch_info", "check_version", "check_updatable", "build_hash", "check_file_perm",
     "dispatch", "check_dir_perm", "remove_old", "download", "write_new", "get_sum",
     "verify", "move_current", "zip_download", "zip_get_sum", "zip_verify", "zip_write"}

DownloadStepErrors ==
    {report_network_error("obtain version info", "; Please try again later or"),
     report_network_error("fetch updates", ";"),
     report_network_error("download latest version", ";"),
     report_network_error("download the latest version", ";")}

C7_LiveUntouchedBeforeInstall ==
    /\ pc \in BeforeInstall => LiveOps(fsops) = <<>> /\ fs["live"] = live0
    /\ (Ended /\ \E m \in DownloadStepErrors : LastReported(m))
          => LiveOps(fsops) = <<>> /\ fs["live"] = live0

C7_Witness ==
    /\ pc = "move_current"
    /\ expected_sum = Sha256[newcontent]
    /\ fs[FilenameNew] = newcontent
    /\ fs["live"] = live0

(***************************************************************************)
(* C8. No fetch of the replacement asset or of the checksum manifest is    *)
(* started unless the target file was found writable and, for win_exe and  *)
(* py2exe, its directory too; a failed check ends the run with a           *)
(* permission error, no further transfer and no filesystem change.         *)
(***************************************************************************)
C8_PermissionBeforeTransfer ==
    /\ (\E i \in DOMAIN net : net[i] \in {"asset", "sums"})
          => /\ fileW = "writable"
             /\ (variant \in SwapVariants => dirW = "writable")
    /\ (fileW = "denied" \/ dirW = "denied")
          => /\ Ended
             /\ ret = "None"
             /\ \/ LastReported(report_permission_error("filename"))
                \/ LastReported(report_permission_error("directory"))
             /\ net = <<"manifest">>
             /\ fsops = <<>>
             /\ fs["live"] = live0

C8_Witness ==
    /\ Ended
    /\ variant \in SwapVariants
    /\ fileW = "writable"
    /\ dirW = "denied"
    /\ LastReported(report_permission_error("directory"))

(***************************************************************************)
(* C9. As stated: with a non-updatable variant (win_dir, mac_dir, source,  *)
(* unknown) run_update performs no network call, reports the fixed message *)
(* of the variant and returns None, whatever the versions are.             *)
(***************************************************************************)
NonUpdatable == detect_variant_body(env) \notin Updatable

VariantReason == report_error(_NON_UPDATEABLE_REASONS[detect_variant_body(env)], TRUE)

C9_NoNetworkWhenNonUpdatable ==
    NonUpdatable =>
        /\ net = <<>>
        /\ Ended => ret = "None" /\ LastReported(VariantReason)

(***************************************************************************)
(* C9, amended. With a non-updatable variant the only network call of the  *)
(* run is the fetch of the release manifest, the run changes no file and   *)
(* returns None; when the fetch succeeded and the current version is lower *)
(* than the latest tag, what it reports last is the fixed message of the   *)
(* variant.                                                                *)
(***************************************************************************)
C9_OnlyManifestWhenNonUpdatable ==
    NonUpdatable =>
        /\ net \in {<<>>, <<"manifest">>}
        /\ fsops = <<>>
        /\ pc \in {"fetch_info", "check_version", "check_updatable", "done"}
        /\ Ended =>
              /\ ret = "None"
              /\ (version_info # NoInfo /\
                  TupleLess(version_tuple(cur), version_tuple(version_info.tag_name)))
                    => LastReported(VariantReason)

C9_Witness ==
    /\ NonUpdatable
    /\ Ended
    /\ net = <<"manifest">>
    /\ ret = "None"
    /\ LastReported(VariantReason)

(***************************************************************************)
(* C10. When the current version is greater than or equal to the latest    *)
(* tag the run reports "up to date" and ends as a no-op: the manifest      *)
(* fetch is its only network transfer, it touches no file and does not     *)
(* return True; so does the run that follows a successful update of an     *)
(* archive variant to that version.                                        *)
(***************************************************************************)
C10_UpToDateIsNoOp ==
    (version_info # NoInfo /\
     TupleGE(version_tuple(cur), version_tuple(version_info.tag_name)))
        => /\ pc \in {"check_version", "done"}
           /\ net = <<"manifest">>
           /\ fsops = <<>>
           /\ fs["live"] = live0
           /\ Ended => ret = "None" /\ LastReported(to_screen("yt-dlp is up to date"))

C10_Witness ==
    /\ run = 2
    /\ Ended
    /\ detect_variant_body(env) \in OverwriteVariants
    /\ live0 \in Downloads
    /\ cur = version_info.tag_name
    /\ LastReported(to_screen("yt-dlp is up to date"))

(***************************************************************************)
(* C11. Single-file install whose second rename fails while every other    *)
(* operation succeeds: at the end the live path holds the original         *)
(* content, no `.old` remains, an error was reported and the result is     *)
(* not True.                                                               *)
(***************************************************************************)
OnlySecondRenameFailed ==
    /\ Renamed(FilenameNew, "live", FALSE)
    /\ \A i \in DOMAIN fsops :
          fsops[i].ok \/ (fsops[i].op = "rename" /\ fsops[i].path = FilenameNew)

C11_SecondRenameFailureRestores ==
    (Ended /\ OnlySecondRenameFailed) =>
        /\ fs["live"] = live0
        /\ fs[FilenameOld] = "absent"
        /\ LastReported(report_unable("overwrite current version", FALSE))
        /\ ret = "None"

C11_Witness ==
    /\ Ended
    /\ OnlySecondRenameFailed
    /\ ~mismatch
    /\ fs[FilenameNew] = newcontent
    /\ fs["live"] = live0
    /\ fs[FilenameOld] = "absent"

(***************************************************************************)
(* C12. For zip and mac_exe a failure to open the target for writing or    *)
(* to write the new bytes leaves the live file untouched: the run reports  *)
(* `Unable to overwrite current version`, returns None and the content of  *)
(* the live path is what it was before the run.                            *)
(***************************************************************************)
C12_OverwriteFailureLeavesLive ==
    (Ended /\ variant \in OverwriteVariants /\
     \E i \in DOMAIN fsops : fsops[i].op = "write" /\ fsops[i].path = "live" /\ ~fsops[i].ok)
        => /\ LastReported(report_unable("overwrite current version", FALSE))
           /\ ret = "None"
           /\ fs["live"] = live0

(***************************************************************************)
(* C13. When no expected digest is available, because the release has no   *)
(* asset named SHA2-256SUMS or because the checksum manifest has no entry  *)
(* for the asset, the run fetches nothing more, emits one warning and      *)
(* goes on to the install step, for the rename-swap and the overwrite      *)
(* variants alike.                                                         *)
(***************************************************************************)
NoChecksumAsset(assets) == ~\E i \in DOMAIN assets : assets[i].name = Str_SUMS

Warnings(l) == SelectSeq(l, LAMBDA m : m.sev = "warning")

C13_NoDigestNeverBlocks ==
    [][/\ (pc \in {"get_sum", "zip_get_sum"} /\ NoChecksumAsset(version_info.assets))
            => /\ expected_sum' = "None"
               /\ net' = net
               /\ pc' \in {"verify", "zip_verify"}
       /\ (pc \in {"verify", "zip_verify"} /\ expected_sum = "None")
            => /\ pc' \in {"move_current", "zip_write"}
               /\ log' = Append(log, report_warning("no hash information found for the release"))
               /\ Len(Warnings(log')) = 1]_vars

(***************************************************************************)
(* Functions applied on their own: the variables of run_update stay at     *)
(* rest while args holds the arguments and result what was returned.       *)
(***************************************************************************)
RestEnv ==
    [frozen |-> FALSE, platform |-> "linux", meipass |-> "none",
     ziploader |-> FALSE, argv0 |-> "yt-dlp"]

AtRest ==
    /\ cache = "none"
    /\ cur = <<"2">>
    /\ version_info = NoInfo
    /\ fs = [live |-> "orig", new |-> "absent", old |-> "absent"]
    /\ live0 = "orig"
    /\ variant = "none"
    /\ arch = "none"
    /\ newcontent = "none"
    /\ expected_sum = "none"
    /\ fileW = "unknown"
    /\ dirW = "unknown"
    /\ ret = "running"
    /\ log = <<>>
    /\ net = <<>>
    /\ fsops = <<>>
    /\ mismatch = FALSE
    /\ cleanup = "none"
    /\ run = 1

RECURSIVE SeqsUpTo(_, _)
\* the sequences of at most n elements of S
SeqsUpTo(S, n) ==
    IF n = 0 THEN {<<>>}
    ELSE LET shorter == SeqsUpTo(S, n - 1)
         IN shorter \cup {Append(q, x) : q \in shorter, x \in S}

\* release assets around the checksum manifest: its exact name, a part of
\* it, the empty name and another asset
SumsAssets ==
    {Asset(n, u) : n \in {Str_SUMS, Str_SHA2, <<>>, Str_ytdlp}, u \in {UrlSums, UrlOther}}

InitSums ==
    /\ AtRest
    /\ env = RestEnv
    /\ pc = "sums_call"
    /\ args \in {<<a>> : a \in SeqsUpTo(SumsAssets, MaxAssets)}
    /\ result = <<>>

\* lines 117-121 of get_sha256sum applied to version_info['assets']
ResolveChecksumAsset ==
    /\ pc = "sums_call"
    /\ result' = <<sha256sum_url(args[1])>>
    /\ pc' = "sums_done"
    /\ UNCHANGED <<env, cache, cur, version_info, fs, live0, variant, arch, newcontent,
                   expected_sum, fileW, dirW, ret, log, net, fsops, mismatch, cleanup, run,
                   args>>

NextSums == ResolveChecksumAsset

SpecSums == InitSums /\ [][NextSums]_vars

(***************************************************************************)
(* C14. For every list of release assets get_sha256sum takes the checksum  *)
(* manifest from the first asset named exactly SHA2-256SUMS and treats it  *)
(* as absent when no asset has exactly that name.                          *)
(***************************************************************************)
C14_ExactChecksumAssetName ==
    pc = "sums_done" => result[1] = FirstUrl(args[1], Str_SUMS)

(***************************************************************************)
(* C15. For every updatable variant and architecture label (32 or 64) a    *)
(* release without a matching asset, the pairs that have no asset name     *)
(* included, is an expected outcome: the run reports `Unable to fetch      *)
(* updates`, returns None and never ends with an uncaught error.           *)
(***************************************************************************)
C15_AbsentAssetHandled ==
    (Ended /\ variant \in Updatable /\ arch # "none" /\
     get_bin_info_url(version_info.assets, variant, arch) \in {"None", "KeyError"})
        => /\ ret = "None"
           /\ LastReported(report_network_error("fetch updates", ";"))

(***************************************************************************)
(* detect_variant under a changing ambient state: the first steps of       *)
(* run_update, up to the dispatch on the variant, interleaved with changes *)
(* of sys.frozen, sys._MEIPASS, sys.platform, __loader__ and sys.argv[0]   *)
(* and with calls of detect_variant from elsewhere in the process.         *)
(***************************************************************************)
InitMemo ==
    /\ Init
    /\ cur = <<"2">>
    /\ fs["old"] = "absent"

\* one attribute read by detect_variant changes
AmbientChange ==
    /\ \E e \in Envs :
          /\ Cardinality({f \in DOMAIN env : e[f] # env[f]}) = 1
          /\ env' = e
    /\ UNCHANGED <<pc, cache, cur, version_info, fs, live0, variant, arch, newcontent,
                   expected_sum, fileW, dirW, ret, log, net, fsops, mismatch, cleanup, run,
                   args, result>>

\* lines 15-28: a call of detect_variant() from anywhere in the process
DetectVariantCall ==
    /\ result' = <<detect_variant(cache, env)>>
    /\ cache' = detect_variant(cache, env)
    /\ UNCHANGED <<pc, env, cur, version_info, fs, live0, variant, arch, newcontent,
                   expected_sum, fileW, dirW, ret, log, net, fsops, mismatch, cleanup, run,
                   args>>

NextMemo ==
    \/ AmbientChange
    \/ DetectVariantCall
    \/ FetchVersionInfo
    \/ CheckVersion
    \/ CheckUpdatable
    \/ CurrentBuildHash
    \/ CheckFilePermission
    \/ Dispatch

SpecMemo == InitMemo /\ [][NextMemo]_vars

(***************************************************************************)
(* C16. After its first call detect_variant returns the same variant on    *)
(* every later call, whatever happens to the ambient state in between; so  *)
(* the variant run_update dispatches on is the one its updatability check  *)
(* accepted.                                                               *)
(***************************************************************************)
C16_DetectVariantMemoized ==
    /\ [][cache # "none" =>
             /\ cache' = cache
             /\ (DetectVariantCall => result' = <<cache>>)
             /\ (Dispatch => variant' = cache)]_vars
    /\ [](variant # "none" => variant = cache /\ variant \in Updatable)

C16_Witness ==
    /\ pc \in {"check_dir_perm", "zip_download"}
    /\ variant = cache
    /\ result = <<variant>>
    /\ detect_variant_body(env) \notin Updatable

(***************************************************************************)
(* The version comparison of line 88 applied to three version strings.     *)
(***************************************************************************)
\* the segments of the version strings compared: decimal integers, one of
\* them with two digits and one with a leading zero
Segments == { <<"2">>, <<"1", "0">>, <<"0", "2">> }

RECURSIVE VersionStrings(_)
\* the dotted strings of 1..n segments
VersionStrings(n) ==
    IF n = 1 THEN Segments
    ELSE LET shorter == VersionStrings(n - 1)
         IN shorter \cup {v \o <<".">> \o g : v \in shorter, g \in Segments}

InitVersions ==
    /\ AtRest
    /\ env = RestEnv
    /\ pc = "cmp_call"
    /\ args \in {<<a, b, c>> : a \in VersionStrings(MaxSegments),
                              b \in VersionStrings(MaxSegments),
                              c \in VersionStrings(MaxSegments)}
    /\ result = <<>>

\* line 88 evaluated for the pairs of args
CompareVersions ==
    /\ pc = "cmp_call"
    /\ result' = [aa |-> IsUpToDate(args[1], args[1]),
                  ab |-> IsUpToDate(args[1], args[2]),
                  ba |-> IsUpToDate(args[2], args[1]),
                  bc |-> IsUpToDate(args[2], args[3]),
                  ac |-> IsUpToDate(args[1], args[3])]
    /\ pc' = "cmp_done"
    /\ UNCHANGED <<env, cache, cur, version_info, fs, live0, variant, arch, newcontent,
                   expected_sum, fileW, dirW, ret, log, net, fsops, mismatch, cleanup, run,
                   args>>

NextVersions == CompareVersions

SpecVersions == InitVersions /\ [][NextVersions]_vars

(***************************************************************************)
(* C17. On well-formed dotted-integer strings, with equal or different     *)
(* numbers of segments, the comparison run_update uses is reflexive,       *)
(* antisymmetric and transitive, and a version counts as up to date        *)
(* exactly when its tuple of integers is greater than or equal to that of  *)
(* the latest tag in the lexicographic order of tuples.                    *)
(***************************************************************************)
\* x precedes y: they agree before some position k where x has ended or
\* holds the smaller integer
LexLess(x, y) ==
    \E k \in 1..Len(y) :
        /\ \A j \in 1..(k - 1) : j <= Len(x) /\ x[j] = y[j]
        /\ (k > Len(x) \/ x[k] < y[k])

C17_VersionOrder ==
    pc = "cmp_done" =>
        LET ta == version_tuple(args[1])
            tb == version_tuple(args[2])
        IN /\ result.aa
           /\ (result.ab /\ result.ba) => ta = tb
           /\ (result.ab /\ result.bc) => result.ac
           /\ result.ab <=> ~LexLess(ta, tb)

C17_Witness ==
    /\ pc = "cmp_done"
    /\ Len(version_tuple(args[1])) # Len(version_tuple(args[2]))
    /\ args[2] # args[3]
    /\ result.ab
    /\ result.bc
    /\ result.ac

(***************************************************************************)
(* detect_variant and is_non_updateable in a fresh process, for every      *)
(* ambient state.                                                          *)
(***************************************************************************)
InitDetect ==
    /\ AtRest
    /\ env \in Envs
    /\ pc = "detect_call"
    /\ args = <<>>
    /\ result = <<>>

\* lines 15-28 and 43-44: the first call in the process
DetectFresh ==
    /\ pc = "detect_call"
    /\ result' = <<detect_variant(cache, env), is_non_updateable(cache, env)>>
    /\ cache' = detect_variant(cache, env)
    /\ pc' = "detect_done"
    /\ UNCHANGED <<env, cur, version_info, fs, live0, variant, arch, newcontent,
                   expected_sum, fileW, dirW, ret, log, net, fsops, mismatch, cleanup, run,
                   args>>

NextDetect == DetectFresh

SpecDetect == InitDetect /\ [][NextDetect]_vars

(***************************************************************************)
(* C18. detect_variant follows the decision order: frozen with the         *)
(* embedded-resource path equal to the directory of the executable is      *)
(* <prefix>_dir, with another path <prefix>_exe, without one py2exe        *)
(* (prefix mac on macOS, win elsewhere); not frozen and loaded from a zip  *)
(* is zip; otherwise an entry point named __main__.py is source and        *)
(* anything else unknown.  Exactly win_exe, mac_exe, py2exe and zip are    *)
(* updatable; every other variant has a non-empty reason.                  *)
(***************************************************************************)
C18_DecisionOrder ==
    pc = "detect_done" =>
        LET v == result[1]
            reason == result[2]
            mac == env.platform = "darwin"
        IN /\ (env.frozen /\ env.meipass = ExeDir)
                => v = IF mac THEN "mac_dir" ELSE "win_dir"
           /\ (env.frozen /\ env.meipass \notin {"none", ExeDir})
                => v = IF mac THEN "mac_exe" ELSE "win_exe"
           /\ (env.frozen /\ env.meipass = "none") => v = "py2exe"
           /\ (~env.frozen /\ env.ziploader) => v = "zip"
           /\ (~env.frozen /\ ~env.ziploader /\ env.argv0 = "__main__.py") => v = "source"
           /\ (~env.frozen /\ ~env.ziploader /\ env.argv0 # "__main__.py") => v = "unknown"
           /\ reason = "None" <=> v \in {"win_exe", "mac_exe", "py2exe", "zip"}
           /\ reason # ""

C18_Witness ==
    /\ pc = "detect_done"
    /\ env.frozen
    /\ env.platform = "linux"
    /\ env.meipass = ExeDir
    /\ result[1] = "win_dir"
    /\ result[2] \notin {"None", ""}

(***************************************************************************)
(* C19. Once the digest of the download was found to differ from the one   *)
(* the checksum manifest lists, the download is never installed: no later  *)
(* step puts it at the live path and the run does not return True.         *)
(***************************************************************************)
C19_FailedVerificationNeverInstalled ==
    mismatch =>
        /\ ~Installed
        /\ ret # "True"
        /\ (fs["live"] = newcontent => live0 = newcontent)

C19_Witness ==
    /\ mismatch
    /\ Ended
    /\ variant \in SwapVariants
    /\ Renamed("live", FilenameOld, TRUE)
    /\ Renamed(FilenameNew, "live", FALSE)
    /\ fs["live"] = live0
    /\ fs["live"] # newcontent

(***************************************************************************)
(* C20. A run that ends in an expected or recoverable failure has called   *)
(* the error operation of the reporting sink exactly once, and the error   *)
(* is the last thing it did before returning.                              *)
(***************************************************************************)
Errors(l) == SelectSeq(l, LAMBDA m : m.sev = "error")

C20_OneErrorPerFailure ==
    (Ended /\ ret = "None" /\ Errors(log) # <<>>) =>
        /\ Len(Errors(log)) = 1
        /\ log[Len(log)].sev = "error"

====
